---- MODULE Spec2Model ----
(***************************************************************************)
(* Model of src/src/shaders.rs: the frame driver do_webgl, the animation-  *)
(* frame callback it installs, and the scene drawer draw_scene with its    *)
(* helper create_perspective_matrix.                                       *)
(*                                                                         *)
(* draw_scene is modelled statement by statement: DrawSteps lists its      *)
(* statements in source order and one action per kind of statement         *)
(* executes the statement the program counter points at.  The graphics     *)
(* context is observed through the log of calls made on it.  Collaborators *)
(* that are called through `?` (ProgramInfo::new, make_buffers,            *)
(* bind_buffer_to_attrib, canvas lookup) may return Ok or Err.             *)
(***************************************************************************)
EXTENDS Integers, Sequences, FiniteSets, TLC

\* ---------------------------------------------------------------- bounds
MaxDim == 3        \* client_width / client_height range over 0..MaxDim
MaxTime == 3       \* host timestamps saturate at MaxTime
MaxCount == 3      \* the observation counters saturate at MaxCount

\* ------------------------------------------------------------- constants
AttribNames == {"a_vertex_position", "a_vertex_color"}
UniformNames == {"u_projection_matrix", "u_model_view_matrix", "u_time"}
BufferNames == {"vertices", "colors"}
\* values get_attrib_location can have stored (i32; -1 = not an active attribute)
AttribSlots == {-1, 0}

Min(a, b) == IF a < b THEN a ELSE b
Sat(n) == Min(n + 1, MaxCount)

\* ------------------------------------------------------ pure conversions
\* `x as u32` on an i32: the two's-complement bit pattern, as 16-bit halves
AsU32(n) == [hi |-> (n \div 65536) % 65536, lo |-> n % 65536]

\* i32 / i32 : quotient truncated toward zero (b # 0)
Abs(n) == IF n < 0 THEN -n ELSE n
TruncDiv(a, b) ==
  IF (a < 0) = (b < 0) THEN Abs(a) \div Abs(b) ELSE -(Abs(a) \div Abs(b))

\* `n as f32` on an i32: exact below 2^24, otherwise rounded to a 24-bit
\* significand (ties to even); the result is the integer the float denotes
RECURSIVE RoundSig(_, _)
RoundSig(m, unit) ==
  IF m \div unit < 16777216
  THEN LET q == m \div unit
           r == m % unit
       IN  IF 2 * r > unit \/ (2 * r = unit /\ q % 2 = 1)
           THEN (q + 1) * unit ELSE q * unit
  ELSE RoundSig(m, 2 * unit)
AsF32(n) == IF n < 0 THEN -RoundSig(-n, 1) ELSE RoundSig(n, 1)

\* line 108: (canvas.client_width() / canvas.client_height()) as f32
AspectRound(w, h) == AsF32(TruncDiv(2 * w + h, 2 * h))
Aspect(w, h) == AsF32(TruncDiv(w, h))

\* line 137: t * 0.001f32, kept as the exact ratio t / 1000
Seconds(t) == [num |-> t, den |-> 1000]

\* HashMap as a set of <<key, value>> pairs
HasKey(m, k) == \E p \in m : p[1] = k
Get(m, k) == (CHOOSE p \in m : p[1] = k)[2]
AttribMaps ==
  { m \in SUBSET (AttribNames \X AttribSlots) :
      \A p \in m, q \in m : p[1] = q[1] => p = q }

\* ------------------------------------------------------------ draw_scene
St(op, name) == [op |-> op, name |-> name]

\* the statements of draw_scene, lines 19..96, in source order
DrawStepsDrawEarly ==
  << St("gl", "clear_color"), St("gl", "enable_depth_test"),
     St("gl", "depth_func_lequal"), St("gl", "clear_color_depth"),
     St("canvas", "canvas"), St("aspect", "aspect"),
     St("perspective", "perspective"), St("model_view", "model_view"),
     St("attrib", "a_vertex_position"), St("buffer", "vertices"),
     St("bind", "vertices"),
     St("attrib", "a_vertex_color"), St("buffer", "colors"),
     St("bind", "colors"),
     St("gl", "use_program"),
     St("draw_arrays", "draw_arrays"),
     St("uniform", "u_projection_matrix"),
     St("uniform", "u_model_view_matrix"),
     St("uniform", "u_time"),
     St("return", "Ok") >>
DrawStepsProgramLate ==
  << St("gl", "clear_color"), St("gl", "enable_depth_test"),
     St("gl", "depth_func_lequal"), St("gl", "clear_color_depth"),
     St("canvas", "canvas"), St("aspect", "aspect"),
     St("perspective", "perspective"), St("model_view", "model_view"),
     St("attrib", "a_vertex_position"), St("buffer", "vertices"),
     St("bind", "vertices"),
     St("attrib", "a_vertex_color"), St("buffer", "colors"),
     St("bind", "colors"),
     St("uniform", "u_projection_matrix"),
     St("uniform", "u_model_view_matrix"),
     St("uniform", "u_time"),
     St("gl", "use_program"),
     St("draw_arrays", "draw_arrays"),
     St("return", "Ok") >>
DrawSteps ==
  << St("gl", "clear_color"), St("gl", "enable_depth_test"),
     St("gl", "depth_func_lequal"), St("gl", "clear_color_depth"),
     St("canvas", "canvas"), St("aspect", "aspect"),
     St("perspective", "perspective"), St("model_view", "model_view"),
     St("attrib", "a_vertex_position"), St("buffer", "vertices"),
     St("bind", "vertices"),
     St("attrib", "a_vertex_color"), St("buffer", "colors"),
     St("bind", "colors"),
     St("gl", "use_program"),
     St("uniform", "u_projection_matrix"),
     St("uniform", "u_model_view_matrix"),
     St("uniform", "u_time"),
     St("draw_arrays", "draw_arrays"),
     St("return", "Ok") >>

\* what a lookup of an absent key does: ok_or(..)? returns Err (lines 36, 42,
\* 59, 62), unwrap() panics (lines 77, 84, 90)
LookupMissAllPanic(op) == "Panic"
LookupMissAllErr(op) == "Err"
LookupMiss(op) == IF op = "uniform" THEN "Panic" ELSE "Err"

\* the ok_or messages of lines 36, 42, 59, 62 (the buffer lookups reuse the
\* attribute messages; the backquotes of the messages are left out)
LookupMessage(name) ==
  IF name \in {"a_vertex_position", "vertices"}
  THEN "Failed to get a_vertex_position attribute"
  ELSE "Failed to get a_vertex_color attribute"

\* the attribute a buffer is bound to and its component count (lines 38..70)
BindAttrib(name) ==
  IF name = "vertices" THEN "a_vertex_position" ELSE "a_vertex_color"
NumComponents(name) == IF name = "vertices" THEN 2 ELSE 4

\* lines 92..94
DrawArraysCallThree ==
  [call |-> "draw_arrays", mode |-> "TRIANGLE_STRIP", first |-> 0, count |-> 3]
DrawArraysCall ==
  [call |-> "draw_arrays", mode |-> "TRIANGLE_STRIP", first |-> 0, count |-> 4]

\* ------------------------------------------------------------- do_webgl
\* the statements of do_webgl, lines 128..143
DoWebglStepsArmTwice ==
  << "program_info_new", "make_buffers", "closure_wrap",
     "request_animation_frame", "request_animation_frame", "return" >>
DoWebglSteps ==
  << "program_info_new", "make_buffers", "closure_wrap",
     "request_animation_frame", "return" >>

\* the body of the closure, lines 137..138
CallbackBodyNoRearm == << "draw_scene" >>
CallbackBodyRearmFirst == << "request_animation_frame", "draw_scene" >>
CallbackBody == << "draw_scene", "request_animation_frame" >>

\* line 137: .unwrap() on the result of draw_scene
UnwrapIgnoreErr(res) == IF res = "Panic" THEN "abort" ELSE "continue"
Unwrap(res) == IF res = "Ok" THEN "continue" ELSE "abort"

\* the `?` of lines 128 and 130
Try(res) == IF res = "Err" THEN "return" ELSE "continue"

\* ----------------------------------------------------------------- state
VARIABLES
  \* do_webgl
  dpc,               \* index of the next statement of do_webgl
  do_result,         \* "none" while do_webgl runs, then "Ok", "Err" or "Panic"
  program_info,      \* the descriptor: attrib_locations, uniform_locations
  buffers,           \* keys of the buffer map
  closure,           \* TRUE once ref_count holds Some(closure)
  \* host scheduler
  armed,             \* animation-frame callbacks requested and not yet delivered
  raf_calls,         \* calls of request_animation_frame so far (saturating)
  last_t,            \* timestamp of the latest tick (saturating)
  \* the closure
  cidx,              \* index of the closure's current statement, 0 = not running
  aborted,           \* TRUE once the closure was left by a panic
  frame_draws,       \* draw_scene invocations started in the current tick
  invocations,       \* draw_scene invocations started so far (saturating)
  \* draw_scene
  running,           \* TRUE while an invocation is in progress
  pc,                \* index of the next (or of the failed) statement
  time,              \* the argument time
  canvas,            \* what gl_context.canvas() gave: "unread", "canvas", ...
  client_width, client_height, aspect,
  projection_matrix, model_view_matrix,
  slots,             \* attribute slots looked up so far, <<name, u32>>
  calls,             \* calls made on the graphics context by this invocation
  result,            \* "none", "Ok", "Err" or "Panic"
  error              \* the error value or panic message

dvars == << dpc, do_result, program_info, buffers, closure >>
hvars == << armed, raf_calls, last_t >>
cvars == << cidx, aborted, frame_draws, invocations >>
locals == << canvas, client_width, client_height, aspect,
             projection_matrix, model_view_matrix, slots >>
svars == << running, pc, time, calls, result, error >>
vars == << dvars, hvars, cvars, locals, svars >>

NoMatrix == [kind |-> "none", param |-> 0]

Init ==
  /\ dpc = 1
  /\ do_result = "none"
  /\ program_info = [attrib_locations |-> {}, uniform_locations |-> {}]
  /\ buffers = {}
  /\ closure = FALSE
  /\ armed = 0
  /\ raf_calls = 0
  /\ last_t = 0
  /\ cidx = 0
  /\ aborted = FALSE
  /\ frame_draws = 0
  /\ invocations = 0
  /\ running = FALSE
  /\ pc = 0
  /\ time = Seconds(0)
  /\ canvas = "unread"
  /\ client_width = 0
  /\ client_height = 0
  /\ aspect = 0
  /\ projection_matrix = NoMatrix
  /\ model_view_matrix = NoMatrix
  /\ slots = {}
  /\ calls = << >>
  /\ result = "none"
  /\ error = ""

\* ------------------------------------------------------ do_webgl actions
DoStep(s) ==
  /\ do_result = "none"
  /\ dpc \in DOMAIN DoWebglSteps
  /\ DoWebglSteps[dpc] = s

\* line 128: let program_info = ProgramInfo::new(&gl_context)?;
ProgramInfoNew ==
  /\ DoStep("program_info_new")
  /\ \E res \in {"Ok", "Err"} :
       \E a \in AttribMaps, u \in SUBSET UniformNames :
         /\ res = "Err" => (a = {} /\ u = {})
         /\ IF Try(res) = "return"
            THEN do_result' = "Err" /\ UNCHANGED << dpc, program_info >>
            ELSE /\ program_info' = [attrib_locations |-> a, uniform_locations |-> u]
                 /\ dpc' = dpc + 1
                 /\ UNCHANGED do_result
  /\ UNCHANGED << buffers, closure, hvars, cvars, locals, svars >>

\* line 130: let buffers = buffers::make_buffers(&gl_context)?;
MakeBuffers ==
  /\ DoStep("make_buffers")
  /\ \E res \in {"Ok", "Err"} :
       \E b \in SUBSET BufferNames :
         /\ res = "Err" => b = {}
         /\ IF Try(res) = "return"
            THEN do_result' = "Err" /\ UNCHANGED << dpc, buffers >>
            ELSE /\ buffers' = b
                 /\ dpc' = dpc + 1
                 /\ UNCHANGED do_result
  /\ UNCHANGED << program_info, closure, hvars, cvars, locals, svars >>

\* lines 133..139: the closure is stored in ref_count
ClosureWrap ==
  /\ DoStep("closure_wrap")
  /\ closure' = TRUE
  /\ dpc' = dpc + 1
  /\ UNCHANGED << do_result, program_info, buffers, hvars, cvars, locals, svars >>

\* line 141: request_animation_frame(ref_count_clone.borrow().as_ref().unwrap())
RequestFirstFrame ==
  /\ DoStep("request_animation_frame")
  /\ IF closure
     THEN /\ armed' = armed + 1
          /\ raf_calls' = Sat(raf_calls)
          /\ dpc' = dpc + 1
          /\ UNCHANGED do_result
     ELSE /\ do_result' = "Panic"
          /\ UNCHANGED << armed, raf_calls, dpc >>
  /\ UNCHANGED << program_info, buffers, closure, last_t, cvars, locals, svars >>

\* line 143: Ok(())
DoWebglReturn ==
  /\ DoStep("return")
  /\ do_result' = "Ok"
  /\ UNCHANGED << dpc, program_info, buffers, closure, hvars, cvars, locals, svars >>

\* ------------------------------------------------------- closure actions
Advance(i) == IF i = Len(CallbackBody) THEN 0 ELSE i + 1

CbStep(s) ==
  /\ cidx \in DOMAIN CallbackBody
  /\ CallbackBody[cidx] = s
  /\ ~running

\* the host delivers an armed callback with a timestamp; the host runs one
\* callback at a time and only after do_webgl has returned
Tick ==
  /\ do_result # "none"
  /\ armed > 0
  /\ cidx = 0
  /\ \E dt \in 1..2 : last_t' = Min(last_t + dt, MaxTime)
  /\ armed' = armed - 1
  /\ cidx' = 1
  /\ frame_draws' = 0
  /\ result' = "none"
  /\ error' = ""
  /\ calls' = << >>
  /\ pc' = 0
  /\ UNCHANGED << dvars, raf_calls, aborted, invocations, locals, running, time >>

\* line 137: draw_scene(&gl_context.clone(), .., t * 0.001f32) is entered
CallDrawScene ==
  /\ CbStep("draw_scene")
  /\ result = "none"
  /\ running' = TRUE
  /\ pc' = 1
  /\ time' = Seconds(last_t)
  /\ calls' = << >>
  /\ frame_draws' = frame_draws + 1
  /\ invocations' = Sat(invocations)
  /\ canvas' = "unread"
  /\ client_width' = 0
  /\ client_height' = 0
  /\ aspect' = 0
  /\ projection_matrix' = NoMatrix
  /\ model_view_matrix' = NoMatrix
  /\ slots' = {}
  /\ UNCHANGED << dvars, hvars, cidx, aborted, result, error >>

\* line 137: .unwrap() of what draw_scene returned; a panic inside draw_scene
\* or in unwrap leaves the closure
UnwrapResult ==
  /\ CbStep("draw_scene")
  /\ result # "none"
  /\ IF Unwrap(result) = "continue"
     THEN cidx' = Advance(cidx) /\ UNCHANGED aborted
     ELSE cidx' = 0 /\ aborted' = TRUE
  /\ UNCHANGED << dvars, hvars, frame_draws, invocations, locals, svars >>

\* line 138: request_animation_frame(ref_count.borrow().as_ref().unwrap())
Rearm ==
  /\ CbStep("request_animation_frame")
  /\ armed' = armed + 1
  /\ raf_calls' = Sat(raf_calls)
  /\ cidx' = Advance(cidx)
  /\ UNCHANGED << dvars, last_t, aborted, frame_draws, invocations, locals, svars >>

\* ---------------------------------------------------- draw_scene actions
Cur == DrawSteps[pc]
AtStep(op) == running /\ pc \in DOMAIN DrawSteps /\ Cur.op = op

\* the statement at pc returns Err or panics: the invocation ends there
Fail(kind, msg) ==
  /\ running' = FALSE
  /\ result' = kind
  /\ error' = msg
  /\ UNCHANGED << pc, time, calls >>

Proceed ==
  /\ pc' = pc + 1
  /\ UNCHANGED << running, time, result, error >>

\* lines 19..26 and 73: calls on the graphics context that return nothing
GlCall ==
  /\ AtStep("gl")
  /\ calls' = Append(calls, [call |-> Cur.name])
  /\ pc' = pc + 1
  /\ UNCHANGED << running, time, result, error >>
  /\ UNCHANGED << dvars, hvars, cvars, locals >>

\* lines 104..107: gl_context.canvas().ok_or(..)?.dyn_into::<HtmlCanvasElement>()?
CanvasLookup ==
  /\ AtStep("canvas")
  /\ \E c \in {"canvas", "none", "not_canvas"} :
       /\ canvas' = c
       /\ IF c = "canvas" THEN Proceed /\ UNCHANGED calls
          ELSE IF c = "none" THEN Fail("Err", "Failed to get canvas on draw")
          ELSE Fail("Err", "dyn_into")
  /\ UNCHANGED << dvars, hvars, cvars, client_width, client_height, aspect,
                  projection_matrix, model_view_matrix, slots >>

\* line 108: the integer division panics when client_height is 0
AspectStep ==
  /\ AtStep("aspect")
  /\ \E w \in 0..MaxDim, h \in 0..MaxDim :
       /\ client_width' = w
       /\ client_height' = h
       /\ IF h = 0
          THEN Fail("Panic", "attempt to divide by zero") /\ UNCHANGED aspect
          ELSE aspect' = Aspect(w, h) /\ Proceed /\ UNCHANGED calls
  /\ UNCHANGED << dvars, hvars, cvars, canvas, projection_matrix,
                  model_view_matrix, slots >>

\* lines 111..112: nalgebra_glm::perspective(aspect, ..); create_perspective_matrix
\* returns and its locals go out of scope
PerspectiveOk ==
  /\ AtStep("perspective")
  /\ projection_matrix' = [kind |-> "perspective", param |-> aspect]
  /\ canvas' = "unread"
  /\ client_width' = 0
  /\ client_height' = 0
  /\ aspect' = 0
  /\ Proceed /\ UNCHANGED calls
  /\ UNCHANGED << dvars, hvars, cvars, model_view_matrix, slots >>

\* line 111: nalgebra is not part of the repository; its perspective
\* constructor asserts that the aspect is not zero, so for aspect 0 a panic is
\* admitted beside the return of a matrix
PerspectivePanic ==
  /\ AtStep("perspective")
  /\ aspect = 0
  /\ Fail("Panic", "The aspect ratio must not be zero.")
  /\ UNCHANGED << dvars, hvars, cvars, locals >>

\* line 30 and lines 116..123: create_model_view_matrix(time)
ModelView ==
  /\ AtStep("model_view")
  /\ model_view_matrix' = [kind |-> "translate_rotate", param |-> time.num]
  /\ Proceed /\ UNCHANGED calls
  /\ UNCHANGED << dvars, hvars, cvars, canvas, client_width, client_height,
                  aspect, projection_matrix, slots >>

\* lines 33..36 and 56..59: attrib_locations.get(name).ok_or(..)? as u32
AttribLookup ==
  /\ AtStep("attrib")
  /\ IF HasKey(program_info.attrib_locations, Cur.name)
     THEN /\ slots' = slots \cup
                 {<< Cur.name, AsU32(Get(program_info.attrib_locations, Cur.name)) >>}
          /\ Proceed /\ UNCHANGED calls
     ELSE /\ Fail(LookupMiss("attrib"), LookupMessage(Cur.name))
          /\ UNCHANGED slots
  /\ UNCHANGED << dvars, hvars, cvars, canvas, client_width, client_height,
                  aspect, projection_matrix, model_view_matrix >>

\* lines 40..42 and 62: buffers.get(name).ok_or(..)?
BufferLookup ==
  /\ AtStep("buffer")
  /\ IF Cur.name \in buffers
     THEN Proceed /\ UNCHANGED calls
     ELSE Fail(LookupMiss("buffer"), LookupMessage(Cur.name))
  /\ UNCHANGED << dvars, hvars, cvars, locals >>

\* lines 50..54 and 70: buffer_attrib::bind_buffer_to_attrib(..)?
Bind ==
  /\ AtStep("bind")
  /\ \E res \in {"Ok", "Err"} :
       IF res = "Ok"
       THEN /\ calls' = Append(calls,
                 [call |-> "bind_buffer_to_attrib", buffer |-> Cur.name,
                  slot |-> Get(slots, BindAttrib(Cur.name)),
                  num_components |-> NumComponents(Cur.name)])
            /\ pc' = pc + 1
            /\ UNCHANGED << running, time, result, error >>
       ELSE Fail("Err", "bind_buffer_to_attrib")
  /\ UNCHANGED << dvars, hvars, cvars, locals >>

\* lines 75..90: uniform_locations.get(name).unwrap() and the upload
UniformValue(name) ==
  IF name = "u_projection_matrix" THEN projection_matrix
  ELSE IF name = "u_model_view_matrix" THEN model_view_matrix
  ELSE [kind |-> "scalar", param |-> time.num]

UniformUpload ==
  /\ AtStep("uniform")
  /\ IF Cur.name \in program_info.uniform_locations
     THEN /\ calls' = Append(calls,
               [call |-> "uniform", name |-> Cur.name, value |-> UniformValue(Cur.name)])
          /\ pc' = pc + 1
          /\ UNCHANGED << running, time, result, error >>
     ELSE Fail(LookupMiss("uniform"), "called Option::unwrap() on a None value")
  /\ UNCHANGED << dvars, hvars, cvars, locals >>

\* line 94: gl_context.draw_arrays(TRIANGLE_STRIP, offset, vertex_count)
DrawArrays ==
  /\ AtStep("draw_arrays")
  /\ calls' = Append(calls, DrawArraysCall)
  /\ pc' = pc + 1
  /\ UNCHANGED << running, time, result, error >>
  /\ UNCHANGED << dvars, hvars, cvars, locals >>

\* line 96: Ok(())
ReturnOk ==
  /\ AtStep("return")
  /\ running' = FALSE
  /\ result' = "Ok"
  /\ UNCHANGED << pc, time, calls, error >>
  /\ UNCHANGED << dvars, hvars, cvars, locals >>

\* --------------------------------------------------------- specification
Next ==
  \/ ProgramInfoNew
  \/ MakeBuffers
  \/ ClosureWrap
  \/ RequestFirstFrame
  \/ DoWebglReturn
  \/ Tick
  \/ CallDrawScene
  \/ UnwrapResult
  \/ Rearm
  \/ GlCall
  \/ CanvasLookup
  \/ AspectStep
  \/ PerspectiveOk
  \/ PerspectivePanic
  \/ ModelView
  \/ AttribLookup
  \/ BufferLookup
  \/ Bind
  \/ UniformUpload
  \/ DrawArrays
  \/ ReturnOk

Spec == Init /\ [][Next]_vars

\* the program and the host keep running: do_webgl and every callback run to
\* their end, and the host delivers every armed animation frame
FairSpec == Spec /\ WF_vars(Next)

\* =============================================================== claims
Finished == ~running /\ result # "none"
IsDraw(c) == c.call = "draw_arrays"
DrawCalls == SelectSeq(calls, IsDraw)
StepIndex(op, name) == CHOOSE i \in DOMAIN DrawSteps : DrawSteps[i] = St(op, name)
FailedStep == DrawSteps[pc]
CallLabel(c) ==
  IF c.call = "uniform" THEN << "uniform", c.name >>
  ELSE IF c.call = "bind_buffer_to_attrib" THEN << "bind", c.buffer >>
  ELSE << "gl", c.call >>
CallLabels == [i \in DOMAIN calls |-> CallLabel(calls[i])]
ClearLabels ==
  << << "gl", "clear_color" >>, << "gl", "enable_depth_test" >>,
     << "gl", "depth_func_lequal" >>, << "gl", "clear_color_depth" >> >>
LacksAttrib(name) == ~HasKey(program_info.attrib_locations, name)
Complete ==
  /\ \A n \in AttribNames : HasKey(program_info.attrib_locations, n)
  /\ program_info.uniform_locations = UniformNames
  /\ buffers = BufferNames

\* C1: draw_scene invocations are strictly sequential.  At most one
\* animation-frame callback is armed; a callback is armed only while no
\* callback and no draw_scene invocation is in progress (the invocation has
\* run to completion before the next tick is requested); a tick starts at
\* most one invocation, and exactly one by the time its callback has ended.
C1_Sequential ==
  /\ armed <= 1
  /\ frame_draws <= 1
  /\ (armed = 1 => cidx = 0 /\ ~running)
  /\ (running => cidx > 0 /\ frame_draws = 1)
  /\ (cidx = 0 /\ result # "none" => frame_draws = 1)
C1_Witness ==
  armed = 1 /\ cidx = 0 /\ result = "Ok" /\ invocations >= 2

\* C2: while no draw_scene invocation fails the frame driver reaches no
\* terminal state: a callback that has ended after a successful draw has
\* re-armed exactly one tick, and under fair delivery of armed ticks a frame
\* is drawn again and again unless some invocation fails.
FrameDrawn == running /\ pc = Len(DrawSteps)
C2_Unbounded ==
  /\ [](do_result = "Ok" /\ ~aborted /\ cidx = 0 /\ result \in {"none", "Ok"}
          => armed = 1)
  /\ (do_result = "Ok" ~> (aborted \/ FrameDrawn))
C2_Witness ==
  FrameDrawn /\ invocations >= 3 /\ raf_calls >= 3

\* C3: a failed draw_scene (Err or panic) is fatal to the loop: from the
\* state in which the invocation has failed on, no callback is armed, no
\* request_animation_frame is called and no draw_scene invocation starts.
C3_FatalFailure ==
  [][ (~running /\ result \in {"Err", "Panic"})
        => /\ armed = 0 /\ armed' = 0
           /\ raf_calls' = raf_calls
           /\ invocations' = invocations
           /\ ~running' /\ result' = result ]_vars
C3_Witness ==
  aborted /\ result = "Err" /\ invocations >= 2 /\ armed = 0

\* C4 as stated: with a_vertex_position or a_vertex_color absent from the
\* descriptor, every draw_scene invocation returns the lookup-failure Err and
\* issues no draw call.
C4_Original ==
  (Finished /\ (LacksAttrib("a_vertex_position") \/ LacksAttrib("a_vertex_color")))
    => /\ result = "Err"
       /\ error \in {"Failed to get a_vertex_position attribute",
                     "Failed to get a_vertex_color attribute"}
       /\ DrawCalls = << >>

\* C4 amended: with a_vertex_position or a_vertex_color absent, draw_scene
\* never returns Ok and issues no draw call; it ends at or before the lookup
\* of the absent attribute, and when it ends at that lookup it returns the
\* Err "Failed to get <name> attribute" and does not panic.
C4_Amended ==
  \A n \in AttribNames :
    (Finished /\ LacksAttrib(n))
      => /\ result # "Ok"
         /\ DrawCalls = << >>
         /\ pc <= StepIndex("attrib", n)
         /\ (FailedStep.op = "attrib"
               => /\ result = "Err"
                  /\ FailedStep.name = "a_vertex_position"
                       => error = "Failed to get a_vertex_position attribute"
                  /\ FailedStep.name = "a_vertex_color"
                       => error = "Failed to get a_vertex_color attribute")
C4_Witness ==
  /\ Finished /\ LacksAttrib("a_vertex_color")
  /\ FailedStep = St("attrib", "a_vertex_color")
  /\ result = "Err" /\ Len(calls) = 5

\* C5 as stated: a draw_scene invocation that ends at the lookup of an absent
\* attribute, buffer or uniform name ends with an Err return.
C5_Original ==
  (Finished /\ result # "Ok" /\ FailedStep.op \in {"attrib", "buffer", "uniform"})
    => result = "Err"

\* C5 amended: an invocation that ends at the lookup of an absent attribute
\* name or buffer name returns the lookup-failure Err; one that ends at the
\* lookup of an absent uniform name panics in unwrap.
C5_Amended ==
  (Finished /\ result # "Ok")
    => /\ FailedStep.op \in {"attrib", "buffer"}
            => /\ result = "Err"
               /\ error \in {"Failed to get a_vertex_position attribute",
                             "Failed to get a_vertex_color attribute"}
       /\ FailedStep.op = "uniform" => result = "Panic"
C5_Witness ==
  Finished /\ result = "Panic" /\ FailedStep = St("uniform", "u_time")

\* C6 as stated: with every required attribute, uniform and buffer key
\* present, every draw_scene invocation completes without error and issues
\* exactly one draw call: triangle strip, offset 0, vertex count 4.
C6_Original ==
  (Finished /\ Complete)
    => /\ result = "Ok"
       /\ Len(DrawCalls) = 1
       /\ DrawCalls[1].mode = "TRIANGLE_STRIP"
       /\ DrawCalls[1].first = 0
       /\ DrawCalls[1].count = 4

\* C6 amended: with every required key present, draw_scene fails on no
\* lookup: it either returns Ok having issued exactly one draw call (triangle
\* strip, offset 0, vertex count 4), or it ends without a draw call in
\* create_perspective_matrix (canvas Err, division panic, perspective panic)
\* or with the Err of bind_buffer_to_attrib.
C6_Amended ==
  (Finished /\ Complete)
    => \/ /\ result = "Ok"
          /\ Len(DrawCalls) = 1
          /\ DrawCalls[1].mode = "TRIANGLE_STRIP"
          /\ DrawCalls[1].first = 0
          /\ DrawCalls[1].count = 4
       \/ /\ result # "Ok"
          /\ DrawCalls = << >>
          /\ FailedStep.op \in {"canvas", "aspect", "perspective", "bind"}
C6_Witness ==
  Finished /\ Complete /\ result = "Ok" /\ Len(DrawCalls) = 1 /\ time.num = 2

\* C7: in every successful invocation the calls on the graphics context are,
\* in this order: clear color, enable depth test, depth func LEQUAL, clear,
\* bind "vertices" to the position slot, bind "colors" to the color slot,
\* use program, upload projection, upload model-view, upload u_time,
\* draw_arrays.
C7_CallOrder ==
  (Finished /\ result = "Ok")
    => /\ CallLabels =
            ClearLabels \o
            << << "bind", "vertices" >>, << "bind", "colors" >>,
               << "gl", "use_program" >>,
               << "uniform", "u_projection_matrix" >>,
               << "uniform", "u_model_view_matrix" >>,
               << "uniform", "u_time" >>,
               << "gl", "draw_arrays" >> >>
       /\ calls[5].slot = AsU32(Get(program_info.attrib_locations, "a_vertex_position"))
       /\ calls[6].slot = AsU32(Get(program_info.attrib_locations, "a_vertex_color"))
C7_Witness ==
  Finished /\ result = "Ok" /\ Len(calls) = 11 /\ calls[5].slot = AsU32(-1)

\* C8: the driver starts looping once and only after the descriptor and the
\* buffers exist: when ProgramInfo::new or make_buffers fails, do_webgl
\* returns Err and nothing is ever armed or drawn; otherwise do_webgl has
\* called request_animation_frame exactly once when it returns Ok, and it
\* invokes draw_scene at no point itself.
StepDone(s) == \E i \in 1..(dpc - 1) : DoWebglSteps[i] = s
C8_StartOnce ==
  /\ (do_result = "Err"
        => armed = 0 /\ raf_calls = 0 /\ invocations = 0 /\ cidx = 0)
  /\ (do_result = "none" => invocations = 0 /\ cidx = 0 /\ ~running)
  /\ (raf_calls > 0 => StepDone("program_info_new") /\ StepDone("make_buffers"))
  /\ ((do_result = "Ok" /\ cidx = 0 /\ invocations = 0)
        => armed = 1 /\ raf_calls = 1)
  /\ (do_result \notin {"none", "Err"} => do_result = "Ok")
C8_Witness ==
  do_result = "Ok" /\ armed = 1 /\ raf_calls = 1 /\ invocations = 0

CallOps == {"gl", "bind", "uniform", "draw_arrays"}
C10_DrawIffOk ==
  /\ Len(DrawCalls) <= 1
  /\ Finished
       => /\ (result = "Ok") = (Len(DrawCalls) = 1)
          /\ result # "Ok"
               => /\ DrawCalls = << >>
                  /\ Len(calls) >= 4
                  /\ SubSeq(CallLabels, 1, 4) = ClearLabels
                  /\ Len(calls) =
                       Cardinality({i \in 1..(pc - 1) : DrawSteps[i].op \in CallOps})
C10_Witness ==
  /\ Finished /\ result = "Err"
  /\ FailedStep = St("bind", "colors") /\ Len(calls) = 5

====
